---- MODULE Spec2Model ----
(***************************************************************************)
(* Model of the chain-deployment pipeline of the Malicious Validator       *)
(* Playbook CLI: the main menu loop, deployChain (balance check, prompt,   *)
(* key provisioning, funding, rollup creation, node-config derivation,     *)
(* artifact write) and the base chain the pipeline talks to.               *)
(*                                                                         *)
(* Amounts are counted in units of 10^13 wei (0.00001 ether), the largest  *)
(* unit in which parseEther('0.00001') and parseEther('0.001') are whole.  *)
(*                                                                         *)
(* Granularity: JavaScript runs the code between two awaits atomically.    *)
(* Every await of a base-chain or file operation is split into the step    *)
(* that issues the call and the step that takes its result.  Some          *)
(* synchronous sections are split further (Provision, DeriveConfig); that  *)
(* only adds intermediate states, in which the environment may act.        *)
(***************************************************************************)
EXTENDS Integers, Sequences, FiniteSets, TLC

(* ------------------------------ bounds -------------------------------- *)

\* deployChain invocations explored per process
MaxRuns == 2
\* size of the pool generatePrivateKey draws fresh keys from
NumGenKeys == 3

(* ------------------------- program constants -------------------------- *)

\* parseEther('0.00001'), in units of 10^13 wei
BASE_STAKE == 1
\* parseEther('0.001'), in units of 10^13 wei
TEST_TOKENS_AMOUNT == 100
\* "gas needs for 2 validators + 1 batch poster + 1 deployer"
FundingMultiplier == 4
\* arbitrumSepolia.id, the parent chain handleDeployChain passes
ARBITRUM_SEPOLIA_ID == 421614

\* the requirement counted over the three funded accounts alone
TOKEN_NEEDS_FOR_DEPLOY_3 == BASE_STAKE + TEST_TOKENS_AMOUNT * (FundingMultiplier - 1)

\* the requirement covering the three transfers and nothing more
TOKEN_NEEDS_FOR_DEPLOY_transfersOnly == TEST_TOKENS_AMOUNT * (FundingMultiplier - 1)

TOKEN_NEEDS_FOR_DEPLOY == BASE_STAKE + TEST_TOKENS_AMOUNT * FundingMultiplier

\* enum NodeRole
Validator == "validator"
BatchPoster == "batchPoster"

\* the list case 0 maps over
roles == <<Validator, Validator, BatchPoster>>

\* the progress messages of the four loop iterations
steps ==
    << "Generating the validator keys...",
       "Sending test tokens to the validator accounts...",
       "Deploying the rollup contracts...",
       "Generating node configuration file..." >>

(* ------------------------------ values -------------------------------- *)

Null == [kind |-> "null"]
\* a bigint amount, in units of 10^13 wei
Amount(n) == [kind |-> "amount", units |-> n]
Undefined == [kind |-> "undefined"]

\* what .env can hold for BATCH_POSTER_PRIVATE_KEY and VALIDATOR_PRIVATE_KEY
\* (index.ts requires neither): both unset, or two keys made beforehand
EnvKeyChoices ==
    { [batchPoster |-> Undefined, validator |-> Undefined],
      [batchPoster |-> [kind |-> "key", k |-> 0 - 1],
       validator |-> [kind |-> "key", k |-> 0 - 2]] }

\* the keys generatePrivateKey can return; a freshly generated key never
\* equals an existing one
GenKeys == {[kind |-> "key", k |-> n] : n \in 1..NumGenKeys}

\* privateKeyToAccount(sanitizePrivateKey(key)).address
privateKeyToAddress(key) == [kind |-> "address", of |-> key.k]

DeployerAddress == [kind |-> "address", of |-> 0]
Addresses == {privateKeyToAddress(k) : k \in GenKeys}

\* deployer balances the process may start with (units of 10^13 wei):
\* nothing, 0.0035, just below and exactly the requirement, 0.005
InitialBalances == {0, 350, TOKEN_NEEDS_FOR_DEPLOY - 1, TOKEN_NEEDS_FOR_DEPLOY, 500}

\* what the chainId prompt can yield: the numeric default left untouched,
\* digits typed by the operator (inquirer returns the string), other text
ChainIdAnswers ==
    { [type |-> "number", val |-> 412346],
      [type |-> "string", val |-> 412347],
      [type |-> "text", val |-> 0] }

\* BigInt(chainId) throws a SyntaxError on text that is no integer literal
BigIntThrows(chainId) == chainId.type = "text"
BigInt(chainId) == chainId.val

\* the function layouts a fetched transaction's calldata can carry and the
\* shapes the factory's receipt logs can have
CalldataLayouts == {"createRollup", "unsupported"}
CoreContractsOfRun(n) == [rollup |-> <<"rollup", n>>, inbox |-> <<"inbox", n>>]
ReceiptLogShapes(n) ==
    { << [event |-> "RollupCreated", args |-> CoreContractsOfRun(n)],
         [event |-> "OwnershipTransferred", args |-> Null] >>,
      << [event |-> "OwnershipTransferred", args |-> Null],
         [event |-> "RollupCreated", args |-> CoreContractsOfRun(n)] >>,
      << [event |-> "OwnershipTransferred", args |-> Null] >> }

\* no callNode invocation yet
NoCall == [state |-> "none"]

(* ------------------------------- state -------------------------------- *)

VARIABLES
    \* process
    pc,                 \* where the single thread of control is
    exitCode,           \* process.exit code, -1 while running
    logged,             \* messages written by logger / console so far
    \* MainMenu and NodeManager singletons
    chainConfig,        \* MainMenu.chainConfig
    isRunning,          \* MainMenu.isRunning
    nmChainConfig,      \* NodeManager.chainConfig
    nodes,              \* NodeManager.nodes (registry: id -> instance)
    \* environment of the process
    envBatchPosterKey,  \* process.env.BATCH_POSTER_PRIVATE_KEY
    envValidatorKey,    \* process.env.VALIDATOR_PRIVATE_KEY
    artifact,           \* content of node-config.json
    \* base chain
    deployerBalance,    \* confirmed balance of the deployer
    accountBalance,     \* confirmed balance of every generated address
    pending,            \* transactions of the deployer accepted, not mined
    mined,              \* mined transactions with their receipts
    \* locals of the current deployChain call
    balance, chainId, nodeAccounts, i, fundIdx, deployRollupHash,
    tx, txReceipt, nodeConfigResult,
    \* history of the current run (not program state)
    runs,               \* deployChain calls so far
    outcome,            \* idle / running / insufficient / cancelled / done / failed
    failedAt,           \* stage in which the error was raised
    stages,             \* stages entered, in order
    completed,          \* stages completed successfully, in order
    inflight,           \* base-chain / file operations awaiting their result
    maxInflight,        \* largest number of operations in flight at once
    ops,                \* operations issued, in order
    returned,           \* value deployChain returned
    reported,           \* chain id printed by deployChain
    \* NodeInterface
    call                \* the callNode invocation under way or last ended

procVars == <<pc, exitCode, logged>>
menuVars == <<chainConfig, isRunning, nmChainConfig, nodes>>
envVars == <<envBatchPosterKey, envValidatorKey>>
chainVars == <<deployerBalance, accountBalance, pending, mined>>
localVars == <<balance, chainId, nodeAccounts, i, fundIdx, deployRollupHash,
               tx, txReceipt, nodeConfigResult>>
histVars == <<runs, outcome, failedAt, stages, completed, inflight, maxInflight,
              ops, returned, reported>>
ifaceVars == <<call>>
vars == <<procVars, menuVars, envVars, artifact, chainVars, localVars, histVars, ifaceVars>>

(* ------------------------------ helpers ------------------------------- *)

Log(level, msg) == [level |-> level, msg |-> msg]

Error(code, message) == [code |-> code, message |-> message]

Range(s) == {s[n] : n \in 1..Len(s)}

IsPrefix(s, t) == Len(s) <= Len(t) /\ \A n \in 1..Len(s) : s[n] = t[n]

\* Array.prototype.filter / map / find
RECURSIVE Filter(_, _)
Filter(s, role) ==
    IF s = <<>> THEN <<>>
    ELSE IF Head(s).role = role
         THEN <<Head(s)>> \o Filter(Tail(s), role)
         ELSE Filter(Tail(s), role)

MapAddress(s) == [n \in 1..Len(s) |-> s[n].address]

RECURSIVE Find(_, _)
Find(s, role) ==
    IF s = <<>> THEN Undefined
    ELSE IF Head(s).role = role THEN Head(s) ELSE Find(Tail(s), role)

\* the stages of the pipeline, in their order
StageOrder ==
    <<"CheckBalance", "Provision", "Fund", "Deploy", "DeriveConfig", "Persist", "Done">>

\* the switch with the bodies of case 1 and case 2 exchanged
CaseOf_swapped(idx) ==
    IF idx >= Len(steps) THEN "finish"
    ELSE CASE idx = 0 -> "case0"
           [] idx = 1 -> "case2"
           [] idx = 2 -> "case1"
           [] OTHER -> "case3"

\* the switch of the for-loop: the code loop index i runs, "finish" once
\* i = steps.length ends the loop
CaseOf(idx) ==
    IF idx >= Len(steps) THEN "finish"
    ELSE CASE idx = 0 -> "case0"
           [] idx = 1 -> "case1"
           [] idx = 2 -> "case2"
           [] OTHER -> "case3"

\* the stage a piece of deployChain belongs to
StageOfPc(label) ==
    CASE label = "case0" -> "Provision"
      [] label = "case1" -> "Fund"
      [] label = "case2" -> "Deploy"
      [] label = "case3" -> "DeriveConfig"
      [] OTHER -> "Done"

\* an operation starts awaiting its result
Await(op) ==
    /\ inflight' = inflight \cup {op}
    /\ maxInflight' = IF Cardinality(inflight \cup {op}) > maxInflight
                      THEN Cardinality(inflight \cup {op}) ELSE maxInflight
    /\ ops' = Append(ops, op)

(* ------------------------------- Init --------------------------------- *)

Init ==
    /\ pc = "menu"
    /\ exitCode = 0 - 1
    /\ logged = {}
    /\ chainConfig = Null
    /\ isRunning = TRUE
    /\ nmChainConfig = Null
    /\ nodes = <<>>
    /\ \E env \in EnvKeyChoices :
          /\ envBatchPosterKey = env.batchPoster
          /\ envValidatorKey = env.validator
    /\ artifact = Null
    /\ deployerBalance \in InitialBalances
    /\ accountBalance = [a \in Addresses |-> 0]
    /\ pending = <<>>
    /\ mined = <<>>
    /\ balance = Null
    /\ chainId = Null
    /\ nodeAccounts = <<>>
    /\ i = 0
    /\ fundIdx = 1
    /\ deployRollupHash = Undefined
    /\ tx = Undefined
    /\ txReceipt = Undefined
    /\ nodeConfigResult = Undefined
    /\ runs = 0
    /\ outcome = "idle"
    /\ failedAt = "none"
    /\ stages = <<>>
    /\ completed = <<>>
    /\ inflight = {}
    /\ maxInflight = 0
    /\ ops = <<>>
    /\ returned = Undefined
    /\ reported = Undefined
    /\ call = NoCall

(* --------------------------- the error path --------------------------- *)

\* main()'s catch: a closed prompt (Ctrl+C inside inquirer) exits quietly,
\* every other error is reported and the process exits with code 1.  Only
\* readline raises ERR_USE_AFTER_CLOSE; the errors of the RPC client, the
\* SDK and the file system carry other codes.
MainCatch(error, before) ==
    /\ pc' = "exited"
    /\ IF error.code = "ERR_USE_AFTER_CLOSE"
       THEN /\ exitCode' = 0
            /\ logged' = logged \cup before \cup {Log("info", "Goodbye!")}
       ELSE /\ exitCode' = 1
            /\ logged' = logged \cup before
                            \cup {Log("error", "An unexpected error occurred"),
                                  Log("error", error.message)}

\* handleDeployChain wrapped in a try/catch that swallows the error
RunFails_swallowed(error, before, op) ==
    /\ pc' = "menu"
    /\ logged' = logged \cup before
    /\ outcome' = "failed"
    /\ failedAt' = stages[Len(stages)]
    /\ inflight' = inflight \ {op}
    /\ UNCHANGED <<exitCode, runs, stages, completed, maxInflight, ops, returned, reported>>
    /\ UNCHANGED <<menuVars, envVars, localVars>>

\* an error raised inside deployChain while `op` (if any) is awaited: the
\* rejection passes through deployChain, handleDeployChain, handleAction and
\* show, none of which catches it, into main()'s catch
RunFails(error, before, op) ==
    /\ MainCatch(error, before)
    /\ outcome' = "failed"
    /\ failedAt' = stages[Len(stages)]
    /\ inflight' = inflight \ {op}
    /\ UNCHANGED <<runs, stages, completed, maxInflight, ops, returned, reported>>
    /\ UNCHANGED <<menuVars, envVars, localVars>>

NoOp == [op |-> "none", arg |-> Null]

(* ------------------------------ main menu ----------------------------- *)

GetBalanceOp == [op |-> "getBalance", arg |-> DeployerAddress]

\* the menu with the deploy choice never disabled
SelectDeployChain_alwaysEnabled ==
    /\ pc = "menu"
    /\ runs < MaxRuns
    /\ pc' = "getBalance"
    /\ logged' = logged \cup {Log("section", "Deploy New Chain")}
    /\ balance' = Null
    /\ chainId' = Null
    /\ nodeAccounts' = <<>>
    /\ i' = 0
    /\ fundIdx' = 1
    /\ deployRollupHash' = Undefined
    /\ tx' = Undefined
    /\ txReceipt' = Undefined
    /\ nodeConfigResult' = Undefined
    /\ runs' = runs + 1
    /\ outcome' = "running"
    /\ failedAt' = "none"
    /\ stages' = <<"CheckBalance">>
    /\ completed' = <<>>
    /\ inflight' = {GetBalanceOp}
    /\ maxInflight' = 1
    /\ ops' = <<GetBalanceOp>>
    /\ returned' = Undefined
    /\ reported' = Undefined
    /\ UNCHANGED <<exitCode, menuVars, envVars, artifact, chainVars>>
    /\ UNCHANGED call

\* MainMenu.show -> handleAction(DEPLOY_CHAIN) -> handleDeployChain ->
\* deployChain up to the await of getBalance.  The choice is disabled once
\* a chain is deployed.
SelectDeployChain ==
    /\ pc = "menu"
    /\ chainConfig = Null
    /\ runs < MaxRuns
    /\ pc' = "getBalance"
    /\ logged' = logged \cup {Log("section", "Deploy New Chain")}
    /\ balance' = Null
    /\ chainId' = Null
    /\ nodeAccounts' = <<>>
    /\ i' = 0
    /\ fundIdx' = 1
    /\ deployRollupHash' = Undefined
    /\ tx' = Undefined
    /\ txReceipt' = Undefined
    /\ nodeConfigResult' = Undefined
    /\ runs' = runs + 1
    /\ outcome' = "running"
    /\ failedAt' = "none"
    /\ stages' = <<"CheckBalance">>
    /\ completed' = <<>>
    /\ inflight' = {GetBalanceOp}
    /\ maxInflight' = 1
    /\ ops' = <<GetBalanceOp>>
    /\ returned' = Undefined
    /\ reported' = Undefined
    /\ UNCHANGED <<exitCode, menuVars, envVars, artifact, chainVars>>
    /\ UNCHANGED call

\* handleManageNodes, and nodeManager.manageNodes up to its prompt
SelectManageNodes ==
    /\ pc = "menu"
    /\ IF chainConfig = Null
       THEN /\ logged' = logged \cup {Log("error", "No chain deployed. Please deploy a chain first.")}
            /\ pc' = "menu"
       ELSE IF nmChainConfig = Null
            THEN /\ logged' = logged \cup {Log("error", "No chain deployed. Please deploy a chain first.")}
                 /\ pc' = "menu"
            ELSE /\ logged' = logged \cup {Log("section", "Node Management")}
                 /\ pc' = "manageNodes"
    /\ UNCHANGED <<exitCode, menuVars, envVars, artifact, chainVars, localVars, histVars>>
    /\ UNCHANGED call

NodeActions ==
    {"start_main", "start_honest", "start_malicious", "start_both",
     "stop_node", "stop_all", "back"}

\* startNode implemented: 'start_main' registers a running node
ManageNodesSelect_startsNode ==
    /\ pc = "manageNodes"
    /\ \E action \in NodeActions :
          IF action = "back"
          THEN /\ pc' = "menu"
               /\ UNCHANGED <<logged, nodes>>
          ELSE /\ pc' = "manageNodes"
               /\ nodes' = IF action = "start_main" /\ nodes = <<>>
                           THEN <<[id |-> "main", status |-> "running"]>>
                           ELSE nodes
               /\ logged' = logged \cup {Log("section", "Node Management")}
    /\ UNCHANGED <<exitCode, chainConfig, isRunning, nmChainConfig>>
    /\ UNCHANGED <<envVars, artifact, chainVars, localVars, histVars>>
    /\ UNCHANGED call

\* one turn of the while(true) of nodeManager.manageNodes: startNode,
\* selectAndStopNode and stopAllNodes only log 'Not implemented'
ManageNodesSelect ==
    /\ pc = "manageNodes"
    /\ \E action \in NodeActions :
          IF action = "back"
          THEN /\ pc' = "menu"
               /\ UNCHANGED logged
          ELSE /\ pc' = "manageNodes"
               /\ logged' = logged \cup
                     (IF action = "start_main" THEN {}
                      ELSE {Log("error", "Not implemented")})
                     \cup {Log("section", "Node Management")}
    /\ UNCHANGED <<exitCode, menuVars, envVars, artifact, chainVars, localVars, histVars>>
    /\ UNCHANGED call

\* handleCallInterface
SelectCallInterface ==
    /\ pc = "menu"
    /\ logged' = logged \cup {Log("error", "Not implemented")}
    /\ UNCHANGED <<pc, exitCode, menuVars, envVars, artifact, chainVars, localVars, histVars>>
    /\ UNCHANGED call

\* handleViewStatus and nodeManager.displayStatus
SelectViewStatus ==
    /\ pc = "menu"
    /\ logged' = logged
          \cup {Log("section", "Current Status")}
          \cup (IF chainConfig # Null THEN {Log("raw", "Chain Information:")}
                ELSE {Log("warn", "No chain deployed yet.")})
          \cup {Log("section", "Node Status"), Log("error", "Not implemented")}
    /\ UNCHANGED <<pc, exitCode, menuVars, envVars, artifact, chainVars, localVars, histVars>>
    /\ UNCHANGED call

runningNodes == {n \in 1..Len(nodes) : nodes[n].status = "running"}

\* handleExit; with isRunning false the loop of show ends and main() calls
\* process.exit(0)
SelectExit ==
    /\ pc = "menu"
    /\ IF runningNodes # {}
       THEN /\ pc' = "exitConfirm"
            /\ UNCHANGED <<exitCode, logged, isRunning>>
       ELSE /\ logged' = logged \cup {Log("success", "Thank you for using Malicious Validator Playbook!")}
            /\ isRunning' = FALSE
            /\ pc' = "exited"
            /\ exitCode' = 0
    /\ UNCHANGED <<chainConfig, nmChainConfig, nodes>>
    /\ UNCHANGED <<envVars, artifact, chainVars, localVars, histVars>>
    /\ UNCHANGED call

\* Ctrl+C while an inquirer prompt is open: the prompt rejects with
\* ERR_USE_AFTER_CLOSE, which nothing below main() catches
PromptClosed ==
    /\ pc \in {"menu", "manageNodes", "prompt"}
    /\ MainCatch(Error("ERR_USE_AFTER_CLOSE", "readline was closed"), {})
    /\ outcome' = IF pc = "prompt" THEN "interrupted" ELSE outcome
    /\ UNCHANGED <<runs, failedAt, stages, completed, inflight, maxInflight, ops,
                   returned, reported>>
    /\ UNCHANGED <<menuVars, envVars, artifact, chainVars, localVars>>
    /\ UNCHANGED call

\* process.on('SIGINT'), at any point while the process runs
SIGINT ==
    /\ pc # "exited"
    /\ pc' = "exited"
    /\ exitCode' = 0
    /\ logged' = logged \cup {Log("info", "Interrupted. Goodbye!")}
    /\ outcome' = IF outcome = "running" THEN "interrupted" ELSE outcome
    /\ UNCHANGED <<runs, failedAt, stages, completed, inflight, maxInflight, ops,
                   returned, reported>>
    /\ UNCHANGED <<menuVars, envVars, artifact, chainVars, localVars>>
    /\ UNCHANGED call

(* ----------------------------- base chain ----------------------------- *)

Hash(t) == [kind |-> "hash", nonce |-> t.nonce]

NextNonce == Len(pending) + Len(mined)

\* what the deployer can still spend once its pending transactions are mined
Spendable ==
    LET RECURSIVE Sum(_)
        Sum(s) == IF s = <<>> THEN 0 ELSE Head(s).value + Sum(Tail(s))
    IN  deployerBalance - Sum(pending)

IsRollupTx(t) == t.input # Null

\* the rollup-creation transactions the deployer has had accepted
RollupTxs ==
    {pending[n] : n \in {m \in 1..Len(pending) : IsRollupTx(pending[m])}}
       \cup {mined[n].tx : n \in {m \in 1..Len(mined) : IsRollupTx(mined[m].tx)}}

\* the transfers the deployer has had accepted, in nonce order
Transfers ==
    LET all == [n \in 1..Len(mined) |-> mined[n].tx] \o pending
        RECURSIVE Keep(_)
        Keep(s) == IF s = <<>> THEN <<>>
                   ELSE IF IsRollupTx(Head(s)) THEN Keep(Tail(s))
                        ELSE <<Head(s)>> \o Keep(Tail(s))
    IN  Keep(all)

\* The base chain mines the deployer's oldest pending transaction (nonce
\* order).  Gas fees are not counted.  A rollup creation either succeeds and
\* emits the factory's logs, or reverts.  The chain is followed for as long
\* as the process runs, and beyond its exit when the run has failed.
Mine ==
    /\ pc # "exited" \/ outcome = "failed"
    /\ pending # <<>>
    /\ LET t == Head(pending) IN
         /\ pending' = Tail(pending)
         /\ IF ~IsRollupTx(t)
            THEN /\ deployerBalance >= t.value
                 /\ deployerBalance' = deployerBalance - t.value
                 /\ accountBalance' = [accountBalance EXCEPT ![t.to] = @ + t.value]
                 /\ mined' = Append(mined, [tx |-> t, status |-> "success", logs |-> <<>>])
            ELSE /\ UNCHANGED <<deployerBalance, accountBalance>>
                 /\ \E receipt \in
                        {[tx |-> t, status |-> "success", logs |-> l] : l \in ReceiptLogShapes(runs)}
                          \cup {[tx |-> t, status |-> "reverted", logs |-> <<>>]} :
                       mined' = Append(mined, receipt)
    /\ UNCHANGED <<procVars, menuVars, envVars, artifact, localVars, histVars>>
    /\ UNCHANGED call

(* ----------------------------- deployChain ---------------------------- *)

\* the end of one iteration of the for-loop and the head of the next:
\* logger.step, then the switch on i
LoopNext(finished) ==
    /\ i' = i + 1
    /\ pc' = CaseOf(i + 1)
    /\ stages' = Append(stages, StageOfPc(CaseOf(i + 1)))
    /\ completed' = Append(completed, finished)

StepLog(idx) == IF idx < Len(steps) THEN {Log("step", steps[idx + 1])} ELSE {}

\* the guard compared against the stake alone
InsufficientBalance_stakeOnly(b) == b < BASE_STAKE

\* line 97
InsufficientBalance(b) == b < TOKEN_NEEDS_FOR_DEPLOY

\* the balance read a second time before the prompt when the first read
\* passes the guard
GetBalanceReturn_readTwice ==
    /\ pc = "getBalance"
    /\ balance' = Amount(deployerBalance)
    /\ inflight' = inflight \ {GetBalanceOp}
    /\ IF InsufficientBalance(deployerBalance)
       THEN /\ logged' = logged \cup
                  {Log("error", "Insufficient balance to deploy chain. Please top up the account.")}
            /\ returned' = Null
            /\ outcome' = "insufficient"
            /\ pc' = "menu"
            /\ UNCHANGED <<completed, ops>>
       ELSE /\ pc' = "prompt"
            /\ completed' = Append(completed, "CheckBalance")
            /\ ops' = Append(ops, GetBalanceOp)
            /\ UNCHANGED <<logged, returned, outcome>>
    /\ UNCHANGED <<exitCode, menuVars, envVars, artifact, chainVars>>
    /\ UNCHANGED <<chainId, nodeAccounts, i, fundIdx, deployRollupHash, tx, txReceipt,
                   nodeConfigResult>>
    /\ UNCHANGED <<runs, failedAt, stages, maxInflight, reported>>
    /\ UNCHANGED call

\* getBalance resolves; lines 96-100
GetBalanceReturn ==
    /\ pc = "getBalance"
    /\ balance' = Amount(deployerBalance)
    /\ inflight' = inflight \ {GetBalanceOp}
    /\ IF InsufficientBalance(deployerBalance)
       THEN /\ logged' = logged \cup
                  {Log("error", "Insufficient balance to deploy chain. Please top up the account.")}
            /\ returned' = Null
            /\ outcome' = "insufficient"
            /\ pc' = "menu"
            /\ UNCHANGED completed
       ELSE /\ pc' = "prompt"
            /\ completed' = Append(completed, "CheckBalance")
            /\ UNCHANGED <<logged, returned, outcome>>
    /\ UNCHANGED <<exitCode, menuVars, envVars, artifact, chainVars>>
    /\ UNCHANGED <<chainId, nodeAccounts, i, fundIdx, deployRollupHash, tx, txReceipt,
                   nodeConfigResult>>
    /\ UNCHANGED <<runs, failedAt, stages, maxInflight, ops, reported>>
    /\ UNCHANGED call

\* getBalance rejects (RPC failure)
GetBalanceThrow ==
    /\ pc = "getBalance"
    /\ RunFails(Error("RPC", "getBalance failed"), {}, GetBalanceOp)
    /\ UNCHANGED <<artifact, chainVars>>
    /\ UNCHANGED call

\* the declined branch warning without returning
PromptAnswer_noReturn ==
    /\ pc = "prompt"
    /\ \E answer \in ChainIdAnswers, confirm \in BOOLEAN :
          /\ chainId' = answer
          /\ logged' = logged
                \cup (IF confirm THEN {} ELSE {Log("warn", "Chain deployment cancelled.")})
                \cup {Log("info", "Starting chain deployment...")} \cup StepLog(0)
          /\ outcome' = IF confirm THEN outcome ELSE "cancelled"
          /\ i' = 0
          /\ pc' = CaseOf(0)
          /\ stages' = Append(stages, StageOfPc(CaseOf(0)))
          /\ UNCHANGED returned
    /\ UNCHANGED <<exitCode, menuVars, envVars, artifact, chainVars>>
    /\ UNCHANGED <<balance, nodeAccounts, fundIdx, deployRollupHash, tx, txReceipt,
                   nodeConfigResult>>
    /\ UNCHANGED <<runs, failedAt, completed, inflight, maxInflight, ops, reported>>
    /\ UNCHANGED call

\* the inquirer prompt resolves; lines 104-147 up to the first switch
PromptAnswer ==
    /\ pc = "prompt"
    /\ \E answer \in ChainIdAnswers, confirm \in BOOLEAN :
          IF ~confirm
          THEN /\ logged' = logged \cup {Log("warn", "Chain deployment cancelled.")}
               /\ returned' = Null
               /\ outcome' = "cancelled"
               /\ pc' = "menu"
               /\ UNCHANGED <<chainId, i, stages>>
          ELSE /\ chainId' = answer
               /\ logged' = logged \cup {Log("info", "Starting chain deployment...")}
                                   \cup StepLog(0)
               /\ i' = 0
               /\ pc' = CaseOf(0)
               /\ stages' = Append(stages, StageOfPc(CaseOf(0)))
               /\ UNCHANGED <<returned, outcome>>
    /\ UNCHANGED <<exitCode, menuVars, envVars, artifact, chainVars>>
    /\ UNCHANGED <<balance, nodeAccounts, fundIdx, deployRollupHash, tx, txReceipt,
                   nodeConfigResult>>
    /\ UNCHANGED <<runs, failedAt, completed, inflight, maxInflight, ops, reported>>
    /\ UNCHANGED call

\* viem's generatePrivateKey: a key no earlier call returned
generatePrivateKey(used) == GenKeys \ used

\* the key lists successive generatePrivateKey() calls can produce
RECURSIVE KeyLists(_)
KeyLists(n) ==
    IF n = 0 THEN {<<>>}
    ELSE UNION {{Append(ks, k) : k \in generatePrivateKey(Range(ks))} : ks \in KeyLists(n - 1)}

\* one key generated ahead of the map and given to every account
NodeAccountsOf_sharedKey(ks) ==
    [n \in 1..Len(roles) |->
        [role |-> roles[n], privateKey |-> ks[1], address |-> privateKeyToAddress(ks[1])]]

\* roles.map((role) => ({ role, privateKey, address }))
NodeAccountsOf(ks) ==
    [n \in 1..Len(roles) |->
        [role |-> roles[n], privateKey |-> ks[n], address |-> privateKeyToAddress(ks[n])]]

\* case 0
Provision ==
    /\ pc = "case0"
    /\ \E ks \in KeyLists(Len(roles)) : nodeAccounts' = NodeAccountsOf(ks)
    /\ LoopNext("Provision")
    /\ logged' = logged \cup StepLog(i + 1)
    /\ UNCHANGED <<exitCode, menuVars, envVars, artifact, chainVars>>
    /\ UNCHANGED <<balance, chainId, fundIdx, deployRollupHash, tx, txReceipt,
                   nodeConfigResult>>
    /\ UNCHANGED <<runs, outcome, failedAt, inflight, maxInflight, ops, returned, reported>>
    /\ UNCHANGED call

\* the failure caught inside case 0 and the loop carried on with the
\* accounts generated on a second attempt
ProvisionThrow_retried ==
    /\ pc = "case0"
    /\ \E ks \in KeyLists(Len(roles)) : nodeAccounts' = NodeAccountsOf(ks)
    /\ LoopNext("Provision")
    /\ logged' = logged \cup StepLog(i + 1)
    /\ outcome' = "failed"
    /\ failedAt' = "Provision"
    /\ UNCHANGED <<exitCode, menuVars, envVars, artifact, chainVars>>
    /\ UNCHANGED <<balance, chainId, fundIdx, deployRollupHash, tx, txReceipt,
                   nodeConfigResult>>
    /\ UNCHANGED <<runs, inflight, maxInflight, ops, returned, reported>>
    /\ UNCHANGED call

\* generatePrivateKey or privateKeyToAccount throws
ProvisionThrow ==
    /\ pc = "case0"
    /\ RunFails(Error("KEYGEN", "key generation failed"), {}, NoOp)
    /\ UNCHANGED <<artifact, chainVars>>
    /\ UNCHANGED call

SendTransactionOp(to) == [op |-> "sendTransaction", arg |-> to]

\* case 1 with the transfers started together (Promise.all over the
\* accounts) instead of one awaited after the other
SendTestTokens_promiseAll ==
    /\ pc = "case1"
    /\ fundIdx <= Len(nodeAccounts)
    /\ inflight' = inflight \cup {SendTransactionOp(a.address) : a \in Range(nodeAccounts)}
    /\ maxInflight' = IF Cardinality(inflight') > maxInflight
                      THEN Cardinality(inflight') ELSE maxInflight
    /\ ops' = ops \o [n \in 1..Len(nodeAccounts) |-> SendTransactionOp(nodeAccounts[n].address)]
    /\ pc' = "sendTransaction"
    /\ UNCHANGED <<exitCode, logged, menuVars, envVars, artifact, chainVars, localVars>>
    /\ UNCHANGED <<runs, outcome, failedAt, stages, completed, returned, reported>>
    /\ UNCHANGED call

\* case 1: the next turn of the for-of loop calls sendTestTokens, which
\* awaits walletClient.sendTransaction
SendTestTokens ==
    /\ pc = "case1"
    /\ fundIdx <= Len(nodeAccounts)
    /\ Await(SendTransactionOp(nodeAccounts[fundIdx].address))
    /\ pc' = "sendTransaction"
    /\ UNCHANGED <<exitCode, logged, menuVars, envVars, artifact, chainVars, localVars>>
    /\ UNCHANGED <<runs, outcome, failedAt, stages, completed, returned, reported>>
    /\ UNCHANGED call

\* case 1 funding the validators only: the loop ends one account early
SendTransactionReturn_validatorsOnly ==
    /\ pc = "sendTransaction"
    /\ Spendable >= TEST_TOKENS_AMOUNT
    /\ pending' = Append(pending,
          [nonce |-> NextNonce, to |-> nodeAccounts[fundIdx].address,
           value |-> TEST_TOKENS_AMOUNT, input |-> Null])
    /\ inflight' = inflight \ {SendTransactionOp(nodeAccounts[fundIdx].address)}
    /\ fundIdx' = fundIdx + 1
    /\ IF fundIdx = Len(nodeAccounts) - 1
       THEN /\ LoopNext("Fund")
            /\ logged' = logged \cup StepLog(i + 1)
       ELSE /\ pc' = "case1"
            /\ UNCHANGED <<i, stages, completed, logged>>
    /\ UNCHANGED <<exitCode, menuVars, envVars, artifact, deployerBalance, accountBalance, mined>>
    /\ UNCHANGED <<balance, chainId, nodeAccounts, deployRollupHash, tx, txReceipt,
                   nodeConfigResult>>
    /\ UNCHANGED <<runs, outcome, failedAt, maxInflight, ops, returned, reported>>
    /\ UNCHANGED call

\* sendTransaction resolves with the hash once the node has accepted the
\* signed transaction; it does not wait for the transaction to be mined
SendTransactionReturn ==
    /\ pc = "sendTransaction"
    /\ Spendable >= TEST_TOKENS_AMOUNT
    /\ pending' = Append(pending,
          [nonce |-> NextNonce, to |-> nodeAccounts[fundIdx].address,
           value |-> TEST_TOKENS_AMOUNT, input |-> Null])
    /\ inflight' = inflight \ {SendTransactionOp(nodeAccounts[fundIdx].address)}
    /\ fundIdx' = fundIdx + 1
    /\ IF fundIdx = Len(nodeAccounts)
       THEN /\ LoopNext("Fund")
            /\ logged' = logged \cup StepLog(i + 1)
       ELSE /\ pc' = "case1"
            /\ UNCHANGED <<i, stages, completed, logged>>
    /\ UNCHANGED <<exitCode, menuVars, envVars, artifact, deployerBalance, accountBalance, mined>>
    /\ UNCHANGED <<balance, chainId, nodeAccounts, deployRollupHash, tx, txReceipt,
                   nodeConfigResult>>
    /\ UNCHANGED <<runs, outcome, failedAt, maxInflight, ops, returned, reported>>
    /\ UNCHANGED call

\* a failed transfer is logged and the loop goes on with the next account
SendTransactionThrow_continue ==
    /\ pc = "sendTransaction"
    /\ inflight' = inflight \ {SendTransactionOp(nodeAccounts[fundIdx].address)}
    /\ fundIdx' = fundIdx + 1
    /\ outcome' = "failed"
    /\ failedAt' = "Fund"
    /\ IF fundIdx = Len(nodeAccounts)
       THEN /\ LoopNext("Fund")
            /\ logged' = logged \cup StepLog(i + 1)
       ELSE /\ pc' = "case1"
            /\ UNCHANGED <<i, stages, completed, logged>>
    /\ UNCHANGED <<exitCode, menuVars, envVars, artifact, chainVars>>
    /\ UNCHANGED <<balance, chainId, nodeAccounts, deployRollupHash, tx, txReceipt,
                   nodeConfigResult>>
    /\ UNCHANGED <<runs, maxInflight, ops, returned, reported>>
    /\ UNCHANGED call

\* a failed transfer answered by a transaction that moves funds back to
\* the deployer before the error is passed on
SendTransactionThrow_refund ==
    /\ pc = "sendTransaction"
    /\ RunFails(Error("RPC", "sendTransaction failed"), {},
                SendTransactionOp(nodeAccounts[fundIdx].address))
    /\ pending' = Append(pending,
          [nonce |-> NextNonce, to |-> DeployerAddress,
           value |-> TEST_TOKENS_AMOUNT, input |-> Null])
    /\ UNCHANGED <<artifact, deployerBalance, accountBalance, mined>>
    /\ UNCHANGED call

\* sendTransaction rejects: RPC failure, rejection, insufficient funds
SendTransactionThrow ==
    /\ pc = "sendTransaction"
    /\ RunFails(Error("RPC", "sendTransaction failed"), {},
                SendTransactionOp(nodeAccounts[fundIdx].address))
    /\ UNCHANGED <<artifact, chainVars>>
    /\ UNCHANGED call

\* the suggested random id passed in place of the operator's answer
prepareChainConfig_suggestedId(id, owner) ==
    [chainId |-> [type |-> "number", val |-> 412346],
     InitialChainOwner |-> owner, DataAvailabilityCommittee |-> TRUE]

\* prepareChainConfig({ chainId, arbitrum: {...} })
prepareChainConfig(id, owner) ==
    [chainId |-> id, InitialChainOwner |-> owner, DataAvailabilityCommittee |-> TRUE]

\* JSON.stringify / JSON.parse of a chain-config document
JSONstringify(doc) ==
    << <<"chainId", doc.chainId>>,
       <<"arbitrum.InitialChainOwner", doc.InitialChainOwner>>,
       <<"arbitrum.DataAvailabilityCommittee", doc.DataAvailabilityCommittee>> >>

\* a parser that coerces the chain id to a number
JSONparse_numeric(text) ==
    [chainId |-> [type |-> "number", val |-> text[1][2].val],
     InitialChainOwner |-> text[2][2],
     DataAvailabilityCommittee |-> text[3][2]]

JSONparse(text) ==
    [chainId |-> text[1][2], InitialChainOwner |-> text[2][2],
     DataAvailabilityCommittee |-> text[3][2]]

\* the deployment parameters built with the funding amount as the stake
createRollupConfig_otherStake(id) ==
    [chainId |-> BigInt(id), owner |-> DeployerAddress, baseStake |-> TEST_TOKENS_AMOUNT,
     chainConfig |-> JSONstringify(prepareChainConfig(id, DeployerAddress)),
     stakeToken |-> "ETH"]

\* createRollupPrepareDeploymentParamsConfig(client, {...}); lines 57-68
createRollupConfig(id) ==
    [chainId |-> BigInt(id), owner |-> DeployerAddress, baseStake |-> BASE_STAKE,
     chainConfig |-> JSONstringify(prepareChainConfig(id, DeployerAddress)),
     stakeToken |-> "ETH"]

\* .find in place of .filter: only the first validator is named
validatorAddresses_first == <<Find(nodeAccounts, Validator).address>>

\* lines 175-177
validatorAddresses == MapAddress(Filter(nodeAccounts, Validator))

\* lines 179-181
batchPosterAddress == Find(nodeAccounts, BatchPoster).address

\* the params deployRollupContracts hands to createRollup; lines 71-79
CreateRollupParams ==
    [config |-> createRollupConfig(chainId),
     batchPosters |-> <<batchPosterAddress>>,
     validators |-> validatorAddresses]

CreateRollupOp == [op |-> "createRollup", arg |-> CreateRollupParams]

\* case 2 up to the await of createRollup
DeployRollupContracts ==
    /\ pc = "case2"
    /\ ~BigIntThrows(chainId)
    /\ Await(CreateRollupOp)
    /\ pc' = "createRollup"
    /\ UNCHANGED <<exitCode, logged, menuVars, envVars, artifact, chainVars, localVars>>
    /\ UNCHANGED <<runs, outcome, failedAt, stages, completed, returned, reported>>
    /\ UNCHANGED call

\* BigInt(chainId) throws before createRollup is called (outside the try)
DeployRollupContractsThrow ==
    /\ pc = "case2"
    /\ BigIntThrows(chainId)
    /\ RunFails(Error("SyntaxError", "Cannot convert to a BigInt"), {}, NoOp)
    /\ UNCHANGED <<artifact, chainVars>>
    /\ UNCHANGED call

\* inside createRollup: the signed rollup-creation transaction is accepted
\* by the node; the factory layout is that of the deployed factory version
CreateRollupSubmit ==
    /\ pc = "createRollup"
    /\ RollupTxs = {}
    /\ \E layout \in CalldataLayouts :
          pending' = Append(pending,
             [nonce |-> NextNonce, to |-> [kind |-> "contract", name |-> "RollupCreator"],
              value |-> 0, input |-> [layout |-> layout, params |-> CreateRollupParams]])
    /\ UNCHANGED <<procVars, menuVars, envVars, artifact, deployerBalance, accountBalance,
                   mined, localVars, histVars>>
    /\ UNCHANGED call

\* createRollup resolving with the hash as soon as the transaction is
\* accepted, without waiting for its receipt
CreateRollupReturn_unconfirmed ==
    /\ pc = "createRollup"
    /\ \E t \in RollupTxs : deployRollupHash' = Hash(t)
    /\ inflight' = inflight \ {CreateRollupOp}
    /\ LoopNext("Deploy")
    /\ logged' = logged \cup StepLog(i + 1)
    /\ UNCHANGED <<exitCode, menuVars, envVars, artifact, chainVars>>
    /\ UNCHANGED <<balance, chainId, nodeAccounts, fundIdx, tx, txReceipt, nodeConfigResult>>
    /\ UNCHANGED <<runs, outcome, failedAt, maxInflight, ops, returned, reported>>
    /\ UNCHANGED call

\* createRollup resolves once its transaction is mined successfully
CreateRollupReturn ==
    /\ pc = "createRollup"
    /\ \E n \in 1..Len(mined) :
          /\ IsRollupTx(mined[n].tx)
          /\ mined[n].status = "success"
          /\ deployRollupHash' = Hash(mined[n].tx)
    /\ inflight' = inflight \ {CreateRollupOp}
    /\ LoopNext("Deploy")
    /\ logged' = logged \cup StepLog(i + 1)
    /\ UNCHANGED <<exitCode, menuVars, envVars, artifact, chainVars>>
    /\ UNCHANGED <<balance, chainId, nodeAccounts, fundIdx, tx, txReceipt, nodeConfigResult>>
    /\ UNCHANGED <<runs, outcome, failedAt, maxInflight, ops, returned, reported>>
    /\ UNCHANGED call

\* createRollup rejects (RPC failure, revert, out of gas); lines 80-83
CreateRollupThrow ==
    /\ pc = "createRollup"
    /\ RunFails(Error("DEPLOY", "rollup creation failed"),
                {Log("console.error", "Rollup creation failed with error")}, CreateRollupOp)
    /\ UNCHANGED <<artifact, chainVars>>
    /\ UNCHANGED call

(* ---------------------- generateNodeConfiguration --------------------- *)

GetTransactionOp(hash) == [op |-> "getTransaction", arg |-> hash]
GetTransactionReceiptOp(hash) == [op |-> "getTransactionReceipt", arg |-> hash]
WriteFileOp == [op |-> "writeFile", arg |-> [file |-> "node-config.json"]]

\* case 3 up to the await of getTransaction
GenerateNodeConfiguration ==
    /\ pc = "case3"
    /\ Await(GetTransactionOp(deployRollupHash))
    /\ pc' = "getTransaction"
    /\ UNCHANGED <<exitCode, logged, menuVars, envVars, artifact, chainVars, localVars>>
    /\ UNCHANGED <<runs, outcome, failedAt, stages, completed, returned, reported>>
    /\ UNCHANGED call

\* getTransaction resolves; the receipt is requested in the same turn
GetTransactionReturn ==
    /\ pc = "getTransaction"
    /\ \E t \in {mined[n].tx : n \in 1..Len(mined)} \cup Range(pending) :
          /\ Hash(t) = deployRollupHash
          /\ tx' = t
    /\ inflight' = (inflight \ {GetTransactionOp(deployRollupHash)})
                      \cup {GetTransactionReceiptOp(deployRollupHash)}
    /\ maxInflight' =
          IF Cardinality(inflight') > maxInflight THEN Cardinality(inflight') ELSE maxInflight
    /\ ops' = Append(ops, GetTransactionReceiptOp(deployRollupHash))
    /\ pc' = "getTransactionReceipt"
    /\ UNCHANGED <<exitCode, logged, menuVars, envVars, artifact, chainVars>>
    /\ UNCHANGED <<balance, chainId, nodeAccounts, i, fundIdx, deployRollupHash, txReceipt,
                   nodeConfigResult>>
    /\ UNCHANGED <<runs, outcome, failedAt, stages, completed, returned, reported>>
    /\ UNCHANGED call

GetTransactionThrow ==
    /\ pc = "getTransaction"
    /\ RunFails(Error("RPC", "getTransaction failed"), {}, GetTransactionOp(deployRollupHash))
    /\ UNCHANGED <<artifact, chainVars>>
    /\ UNCHANGED call

\* getTransactionReceipt resolves
GetTransactionReceiptReturn ==
    /\ pc = "getTransactionReceipt"
    /\ \E n \in 1..Len(mined) :
          /\ Hash(mined[n].tx) = deployRollupHash
          /\ txReceipt' = [status |-> mined[n].status, logs |-> mined[n].logs]
    /\ inflight' = inflight \ {GetTransactionReceiptOp(deployRollupHash)}
    /\ pc' = "decode"
    /\ UNCHANGED <<exitCode, logged, menuVars, envVars, artifact, chainVars>>
    /\ UNCHANGED <<balance, chainId, nodeAccounts, i, fundIdx, deployRollupHash, tx,
                   nodeConfigResult>>
    /\ UNCHANGED <<runs, outcome, failedAt, stages, completed, maxInflight, ops, returned,
                   reported>>
    /\ UNCHANGED call

GetTransactionReceiptThrow ==
    /\ pc = "getTransactionReceipt"
    /\ RunFails(Error("RPC", "getTransactionReceipt failed"), {},
                GetTransactionReceiptOp(deployRollupHash))
    /\ UNCHANGED <<artifact, chainVars>>
    /\ UNCHANGED call

\* tx.getInputs(): decodes the calldata with the factory's createRollup
\* layout, and throws on any other
getInputsThrows(t) == t.input.layout # "createRollup"
getInputs(t) == <<t.input.params>>

\* txReceipt.getCoreContracts(): the args of the RollupCreated log, wherever
\* it stands among the logs; throws when there is none
RollupCreatedLogs(logs) == {n \in 1..Len(logs) : logs[n].event = "RollupCreated"}
getCoreContractsThrows(rc) == RollupCreatedLogs(rc.logs) = {}
\* the core contracts read from the first log of the receipt
getCoreContracts_firstLog(rc) == rc.logs[1].args

getCoreContracts(rc) ==
    IF RollupCreatedLogs(rc.logs) = {} THEN Undefined
    ELSE rc.logs[CHOOSE n \in RollupCreatedLogs(rc.logs) :
                    \A m \in RollupCreatedLogs(rc.logs) : n <= m].args

\* lines 33-49: the parameters handed to prepareNodeConfig
nodeConfigParameters(t, rc) ==
    LET txConfig == getInputs(t)[1].config IN
    [chainName |-> "My Orbit Chain",
     chainConfig |-> JSONparse(txConfig.chainConfig),
     coreContracts |-> getCoreContracts(rc),
     batchPosterPrivateKey |-> envBatchPosterKey,
     validatorPrivateKey |-> envValidatorKey,
     stakeToken |-> txConfig.stakeToken,
     parentChainId |-> ARBITRUM_SEPOLIA_ID,
     parentChainRpcUrl |-> "arbitrumSepolia.rpcUrls.default.http[0]"]

\* the SDK's prepareNodeConfig: the node configuration carries its parameters
prepareNodeConfig(params) ==
    [chain |-> [name |-> params.chainName, chainConfig |-> params.chainConfig,
                coreContracts |-> params.coreContracts, stakeToken |-> params.stakeToken],
     parentChain |-> [id |-> params.parentChainId, url |-> params.parentChainRpcUrl],
     batchPosterPrivateKey |-> params.batchPosterPrivateKey,
     validatorPrivateKey |-> params.validatorPrivateKey]

\* a receipt without the RollupCreated log is tolerated
DerivationFails_calldataOnly(t, rc) == getInputsThrows(t)

\* whether one of the two extraction passes throws
DerivationFails(t, rc) == getInputsThrows(t) \/ getCoreContractsThrows(rc)

\* lines 33-53, then the call of writeFile (line 197 of deployChain)
DeriveConfig ==
    /\ pc = "decode"
    /\ ~DerivationFails(tx, txReceipt)
    /\ nodeConfigResult' =
          [nodeConfig |-> prepareNodeConfig(nodeConfigParameters(tx, txReceipt)),
           chainConfig |-> nodeConfigParameters(tx, txReceipt).chainConfig]
    /\ Await(WriteFileOp)
    /\ stages' = Append(stages, "Persist")
    /\ completed' = Append(completed, "DeriveConfig")
    /\ pc' = "writeFile"
    /\ UNCHANGED <<exitCode, logged, menuVars, envVars, artifact, chainVars>>
    /\ UNCHANGED <<balance, chainId, nodeAccounts, i, fundIdx, deployRollupHash, tx, txReceipt>>
    /\ UNCHANGED <<runs, outcome, failedAt, returned, reported>>
    /\ UNCHANGED call

\* a decoder throws: the calldata or the logs do not have the expected shape
DeriveConfigThrow ==
    /\ pc = "decode"
    /\ DerivationFails(tx, txReceipt)
    /\ RunFails(Error("DECODE", "not a rollup-creation transaction"), {}, NoOp)
    /\ UNCHANGED <<artifact, chainVars>>
    /\ UNCHANGED call

\* the SDK's prepareNodeConfig throws (it validates its parameters)
PrepareNodeConfigThrow ==
    /\ pc = "decode"
    /\ ~DerivationFails(tx, txReceipt)
    /\ RunFails(Error("SDK", "prepareNodeConfig failed"), {}, NoOp)
    /\ UNCHANGED <<artifact, chainVars>>
    /\ UNCHANGED call

\* writeFile resolves; line 198, the end of the loop
WriteFileReturn ==
    /\ pc = "writeFile"
    /\ artifact' = [kind |-> "file", content |-> nodeConfigResult.nodeConfig]
    /\ logged' = logged \cup {Log("success", "Node config written to node-config.json")}
                        \cup StepLog(i + 1)
    /\ inflight' = inflight \ {WriteFileOp}
    /\ LoopNext("Persist")
    /\ UNCHANGED <<exitCode, menuVars, envVars, chainVars>>
    /\ UNCHANGED <<balance, chainId, nodeAccounts, fundIdx, deployRollupHash, tx, txReceipt,
                   nodeConfigResult>>
    /\ UNCHANGED <<runs, outcome, failedAt, maxInflight, ops, returned, reported>>
    /\ UNCHANGED call

\* writeFile rejects; the file may already have been truncated
WriteFileThrow ==
    /\ pc = "writeFile"
    /\ artifact' \in {artifact, [kind |-> "truncated"]}
    /\ RunFails(Error("EIO", "writeFile failed"), {}, WriteFileOp)
    /\ UNCHANGED chainVars
    /\ UNCHANGED call

\* handleDeployChain without the call of nodeManager.setChainConfig
Finish_menuOnly ==
    /\ pc = "finish"
    /\ logged' = logged \cup {Log("success", "Chain deployed successfully!"),
                              Log("raw", "Chain ID")}
    /\ reported' = nodeConfigResult.chainConfig.chainId
    /\ returned' = nodeConfigResult.chainConfig
    /\ chainConfig' = nodeConfigResult.chainConfig
    /\ outcome' = "done"
    /\ completed' = Append(completed, "Done")
    /\ pc' = "menu"
    /\ UNCHANGED <<exitCode, isRunning, nmChainConfig, nodes, envVars, artifact, chainVars,
                   localVars>>
    /\ UNCHANGED <<runs, failedAt, stages, inflight, maxInflight, ops>>
    /\ UNCHANGED call

\* lines 203-215, then lines 85-88 of handleDeployChain
Finish ==
    /\ pc = "finish"
    /\ logged' = logged \cup {Log("success", "Chain deployed successfully!"),
                              Log("raw", "Chain ID")}
    /\ reported' = nodeConfigResult.chainConfig.chainId
    /\ returned' = nodeConfigResult.chainConfig
    /\ chainConfig' = nodeConfigResult.chainConfig
    /\ nmChainConfig' = nodeConfigResult.chainConfig
    /\ outcome' = "done"
    /\ completed' = Append(completed, "Done")
    /\ pc' = "menu"
    /\ UNCHANGED <<exitCode, isRunning, nodes, envVars, artifact, chainVars, localVars>>
    /\ UNCHANGED <<runs, failedAt, stages, inflight, maxInflight, ops>>
    /\ UNCHANGED call

(* ------------------ the earlier pipeline (deployChain.ts) ------------- *)

\* modules/chain/deployChain.ts keeps three key variables and three address
\* variables in place of the role-tagged list.  It is written here as a
\* function from the collaborators' responses to what the call does: ks are
\* the keys generatePrivateKey returns, hash the hash createRollup returns,
\* and f names the first collaborator call that fails ("none" when none
\* does).  Its constants have the values of the refactored module.

old_TOKEN_NEEDS_FOR_DEPLOY == BASE_STAKE + TEST_TOKENS_AMOUNT * 4

\* case 0, lines 147-154
validatorKeys1(ks) == ks[1]
validatorKeys2(ks) == ks[2]
batchPosterKeys(ks) == ks[3]
validator1Address(ks) == privateKeyToAddress(validatorKeys1(ks))
validator2Address(ks) == privateKeyToAddress(validatorKeys2(ks))
old_batchPosterAddress(ks) == privateKeyToAddress(batchPosterKeys(ks))

\* the batch poster funded ahead of the validators
old_sendTargets_batchPosterFirst(ks) ==
    <<old_batchPosterAddress(ks), validator1Address(ks), validator2Address(ks)>>

\* case 1, lines 159-161: the three awaited sendTestTokens calls
old_sendTargets(ks) ==
    <<validator1Address(ks), validator2Address(ks), old_batchPosterAddress(ks)>>

\* deployRollupContracts, lines 46-57
old_createRollupConfig(id) ==
    [chainId |-> BigInt(id), owner |-> DeployerAddress, baseStake |-> BASE_STAKE,
     chainConfig |-> JSONstringify(prepareChainConfig(id, DeployerAddress)),
     stakeToken |-> "ETH"]

\* case 2, line 165, and the params of lines 61-65
old_CreateRollupParams(ks, id) ==
    [config |-> old_createRollupConfig(id),
     batchPosters |-> <<old_batchPosterAddress(ks)>>,
     validators |-> <<validator1Address(ks), validator2Address(ks)>>]

\* the collaborator calls of one run, in the order they can fail
old_FailurePoints ==
    {"none", "getBalance", "generatePrivateKey", "sendTransaction1", "sendTransaction2",
     "sendTransaction3", "createRollup", "getTransaction", "getTransactionReceipt",
     "decode", "prepareNodeConfig", "writeFile"}

old_Result(issued, out, at) == [ops |-> issued, outcome |-> out, failedAt |-> at]

\* case 1 of the earlier loop: the transfers up to the first that fails
old_sends(ks, f) ==
    LET all == [n \in 1..3 |-> SendTransactionOp(old_sendTargets(ks)[n])] IN
    CASE f = "sendTransaction1" -> SubSeq(all, 1, 1)
      [] f = "sendTransaction2" -> SubSeq(all, 1, 2)
      [] OTHER -> all

\* deployChain of modules/chain/deployChain.ts, lines 78-192: the operations
\* it issues and how it ends
old_deployChain(b, confirm, id, ks, hash, f) ==
    LET o1 == <<GetBalanceOp>>
        o2 == o1 \o old_sends(ks, f)
        o3 == Append(o2, [op |-> "createRollup", arg |-> old_CreateRollupParams(ks, id)])
        o4 == Append(o3, GetTransactionOp(hash))
        o5 == Append(o4, GetTransactionReceiptOp(hash))
        o6 == Append(o5, WriteFileOp)
    IN  IF f = "getBalance" THEN old_Result(o1, "failed", "CheckBalance")
        ELSE IF b < old_TOKEN_NEEDS_FOR_DEPLOY THEN old_Result(o1, "insufficient", "none")
        ELSE IF ~confirm THEN old_Result(o1, "cancelled", "none")
        ELSE IF f = "generatePrivateKey" THEN old_Result(o1, "failed", "Provision")
        ELSE IF f \in {"sendTransaction1", "sendTransaction2", "sendTransaction3"}
             THEN old_Result(o2, "failed", "Fund")
        ELSE IF BigIntThrows(id) THEN old_Result(o2, "failed", "Deploy")
        ELSE IF f = "createRollup" THEN old_Result(o3, "failed", "Deploy")
        ELSE IF f = "getTransaction" THEN old_Result(o4, "failed", "DeriveConfig")
        ELSE IF f \in {"getTransactionReceipt", "decode", "prepareNodeConfig"}
             THEN old_Result(o5, "failed", "DeriveConfig")
        ELSE IF f = "writeFile" THEN old_Result(o6, "failed", "Persist")
        ELSE old_Result(o6, "done", "none")

(* --------------------------- NodeInterface ---------------------------- *)

\* enum NodeType, enum NodeStatus
NodeTypes == {"honest", "malicious"}
NodeStatuses == {"stopped", "starting", "running", "error"}

\* the NodeInstance values a registry can hold: one node per type, the
\* optional blockHeight absent, zero or positive
NodeInstances ==
    {[config |-> [id |-> <<"node", t>>, name |-> <<"Node", t>>, type |-> t],
      status |-> st, blockHeight |-> h] :
        t \in NodeTypes, st \in NodeStatuses,
        h \in {Undefined, [kind |-> "number", val |-> 0], [kind |-> "number", val |-> 7]}}

\* the contents a Map<string, NodeInstance> can have, in insertion order:
\* no node, one node, or two nodes under different ids
Registries ==
    {<<>>} \cup {<<a>> : a \in NodeInstances}
           \cup {r \in NodeInstances \X NodeInstances : r[1].config.id # r[2].config.id}

\* the ids callNode can be asked for and the methods it can be given
NodeIdInputs == {<<"node", t>> : t \in NodeTypes} \cup {<<"node", "unknown">>}
Methods == {"eth_blockNumber", "eth_getValidators", "eth_sendTransaction", "net_version"}

\* NodeManager.getNode: this.nodes.get(nodeId)
getNode(nodeId) ==
    IF \E n \in 1..Len(nodes) : nodes[n].config.id = nodeId
    THEN nodes[CHOOSE n \in 1..Len(nodes) : nodes[n].config.id = nodeId]
    ELSE Undefined

\* getMockValidators
getMockValidators(nodeType) ==
    <<"0x1111...1111", "0x2222...2222", "0x3333...3333">>
       \o (IF nodeType = "malicious" THEN <<"0xBAD0...BAD0">> ELSE <<>>)

\* processMockTransaction: the results it can give (the hash and, on a
\* malicious node, the behaviour are drawn at random)
processMockTransaction(nodeType) ==
    IF nodeType = "malicious"
    THEN {[txHash |-> h, status |-> "pending", maliciousBehavior |-> b] :
             h \in {"0xaa", "0xbb"},
             b \in {"Transaction reordered for MEV extraction",
                    "Transaction censored (not included in block)",
                    "Double-spending attempt initiated",
                    "Front-running detected"}}
    ELSE {[txHash |-> h, status |-> "pending", estimatedConfirmation |-> "~12 seconds"] :
             h \in {"0xaa", "0xbb"}}

\* the switch on the method, lines 43-55
MockResponses(node, method) ==
    CASE method = "eth_blockNumber" ->
            {IF node.blockHeight = Undefined
             THEN [kind |-> "number", val |-> 0] ELSE node.blockHeight}
      [] method = "eth_getValidators" ->
            {[kind |-> "validators", list |-> getMockValidators(node.config.type)]}
      [] method = "eth_sendTransaction" -> processMockTransaction(node.config.type)
      [] OTHER -> {[success |-> TRUE, method |-> method]}

\* callNode with the status check left out
CallNode_noStatusCheck ==
    /\ pc = "iface"
    /\ \E nodeId \in NodeIdInputs, method \in Methods :
          LET node == getNode(nodeId) IN
          IF node = Undefined
          THEN /\ call' = [state |-> "thrown", nodeId |-> nodeId, method |-> method,
                           error |-> "not found"]
               /\ UNCHANGED <<pc, logged>>
          ELSE /\ call' = [state |-> "waiting", nodeId |-> nodeId, method |-> method,
                           node |-> node]
               /\ logged' = logged \cup {Log("info", "Calling")}
               /\ pc' = "callDelay"
    /\ UNCHANGED <<exitCode, menuVars, envVars, artifact, chainVars, localVars, histVars>>

\* callNode up to the await of delay(200), lines 28-40: the two checks throw
\* (the promise rejects) before anything else is done
CallNode ==
    /\ pc = "iface"
    /\ \E nodeId \in NodeIdInputs, method \in Methods :
          LET node == getNode(nodeId) IN
          IF node = Undefined
          THEN /\ call' = [state |-> "thrown", nodeId |-> nodeId, method |-> method,
                           error |-> "not found"]
               /\ UNCHANGED <<pc, logged>>
          ELSE IF node.status # "running"
          THEN /\ call' = [state |-> "thrown", nodeId |-> nodeId, method |-> method,
                           error |-> "is not running"]
               /\ UNCHANGED <<pc, logged>>
          ELSE /\ call' = [state |-> "waiting", nodeId |-> nodeId, method |-> method,
                           node |-> node]
               /\ logged' = logged \cup {Log("info", "Calling")}
               /\ pc' = "callDelay"
    /\ UNCHANGED <<exitCode, menuVars, envVars, artifact, chainVars, localVars, histVars>>

\* the delay is over: the switch computes the result from the node object
\* taken before the delay, lines 43-55
CallNodeReturn ==
    /\ pc = "callDelay"
    /\ \E result \in MockResponses(getNode(call.nodeId), call.method) :
          call' = [state |-> "returned", nodeId |-> call.nodeId, method |-> call.method,
                   result |-> result]
    /\ pc' = "iface"
    /\ UNCHANGED <<exitCode, logged, menuVars, envVars, artifact, chainVars, localVars,
                   histVars>>

(* ------------------------------- system ------------------------------- *)

Next ==
    \/ SelectDeployChain
    \/ SelectManageNodes
    \/ ManageNodesSelect
    \/ SelectCallInterface
    \/ SelectViewStatus
    \/ SelectExit
    \/ PromptClosed
    \/ SIGINT
    \/ Mine
    \/ GetBalanceReturn
    \/ GetBalanceThrow
    \/ PromptAnswer
    \/ Provision
    \/ ProvisionThrow
    \/ SendTestTokens
    \/ SendTransactionReturn
    \/ SendTransactionThrow
    \/ DeployRollupContracts
    \/ DeployRollupContractsThrow
    \/ CreateRollupSubmit
    \/ CreateRollupReturn
    \/ CreateRollupThrow
    \/ GenerateNodeConfiguration
    \/ GetTransactionReturn
    \/ GetTransactionThrow
    \/ GetTransactionReceiptReturn
    \/ GetTransactionReceiptThrow
    \/ DeriveConfig
    \/ DeriveConfigThrow
    \/ PrepareNodeConfigThrow
    \/ WriteFileReturn
    \/ WriteFileThrow
    \/ Finish

Spec == Init /\ [][Next]_vars

\* NodeInterface.callNode on its own.  The menu never calls it
\* (handleCallInterface only logs 'Not implemented'), so it is applied here
\* to every registry content and every input.
InitCallNode ==
    /\ pc = "iface"
    /\ exitCode = 0 - 1
    /\ logged = {}
    /\ chainConfig = Null
    /\ isRunning = TRUE
    /\ nmChainConfig = Null
    /\ nodes \in Registries
    /\ envBatchPosterKey = Undefined
    /\ envValidatorKey = Undefined
    /\ artifact = Null
    /\ deployerBalance = 0
    /\ accountBalance = [a \in Addresses |-> 0]
    /\ pending = <<>>
    /\ mined = <<>>
    /\ balance = Null
    /\ chainId = Null
    /\ nodeAccounts = <<>>
    /\ i = 0
    /\ fundIdx = 1
    /\ deployRollupHash = Undefined
    /\ tx = Undefined
    /\ txReceipt = Undefined
    /\ nodeConfigResult = Undefined
    /\ runs = 0
    /\ outcome = "idle"
    /\ failedAt = "none"
    /\ stages = <<>>
    /\ completed = <<>>
    /\ inflight = {}
    /\ maxInflight = 0
    /\ ops = <<>>
    /\ returned = Undefined
    /\ reported = Undefined
    /\ call = NoCall

NextCallNode ==
    \/ CallNode
    \/ CallNodeReturn

SpecCallNode == InitCallNode /\ [][NextCallNode]_vars

(* ------------------------------- claims ------------------------------- *)

\* the sendTransaction calls of the current run, in the order issued
SendOps == SelectSeq(ops, LAMBDA o : o.op = "sendTransaction")
CreateRollupOps == SelectSeq(ops, LAMBDA o : o.op = "createRollup")
ProvisionedAddresses == MapAddress(nodeAccounts)
Entered(stage) == stage \in Range(stages)
Completed(stage) == stage \in Range(completed)

\* C1: a run whose balance read is below the enforced requirement ends at
\* CheckBalance: it returns null, no other stage is entered, the balance
\* read is its only base-chain operation, no transfer and no rollup creation
\* is on the chain, no artifact exists and the menu holds no chain.
C1_InsufficientBalanceAborts ==
    (balance # Null /\ balance.units < TOKEN_NEEDS_FOR_DEPLOY) =>
        /\ outcome = "insufficient"
        /\ returned = Null
        /\ stages = <<"CheckBalance">>
        /\ ops = <<GetBalanceOp>>
        /\ nodeAccounts = <<>>
        /\ Transfers = <<>>
        /\ RollupTxs = {}
        /\ artifact = Null
        /\ chainConfig = Null

C1_Witness ==
    /\ outcome = "insufficient"
    /\ balance = Amount(TOKEN_NEEDS_FOR_DEPLOY - 1)
    /\ pc = "menu"
    /\ runs = 1

\* C2: the stages a run has entered are always an initial part of
\* CheckBalance, Provision, Fund, Deploy, DeriveConfig, Persist, Done (so
\* none is entered twice or out of order), every stage but the last entered
\* has completed, and within a run the list of entered stages only grows.
C2_StagesInFixedOrder ==
    /\ [](/\ IsPrefix(stages, StageOrder)
          /\ IsPrefix(completed, stages)
          /\ Len(stages) <= Len(completed) + 1)
    /\ [][runs' = runs => IsPrefix(stages, stages')]_vars

C2_Witness ==
    /\ outcome = "done"
    /\ stages = StageOrder
    /\ completed = StageOrder

\* C3: the transfers are attempted in provisioning order (validator,
\* validator, batch poster), each one only after all earlier ones were
\* accepted; once one fails no further transfer is attempted and Deploy is
\* entered only when every account's transfer was accepted.
C3_TransfersInOrderAbortOnFailure ==
    /\ IsPrefix([n \in 1..Len(SendOps) |-> SendOps[n].arg], ProvisionedAddresses)
    /\ IsPrefix([n \in 1..Len(Transfers) |-> Transfers[n].to], ProvisionedAddresses)
    /\ nodeAccounts # <<>> =>
          [n \in 1..Len(nodeAccounts) |-> nodeAccounts[n].role]
             = <<Validator, Validator, BatchPoster>>
    /\ Len(SendOps) <= Len(Transfers) + 1
    /\ (outcome = "failed" /\ failedAt = "Fund") =>
          /\ Len(SendOps) = Len(Transfers) + 1
          /\ pc = "exited"
    /\ Entered("Deploy") => Len(Transfers) = Len(nodeAccounts)
    /\ (CreateRollupOps # <<>> \/ RollupTxs # {}) => Len(Transfers) = Len(nodeAccounts)

C3_Witness ==
    /\ outcome = "failed"
    /\ failedAt = "Fund"
    /\ Len(SendOps) = 2
    /\ Len(Transfers) = 1
    /\ ~Entered("Deploy")

\* C4: a run in which Provision, Fund, Deploy, DeriveConfig or Persist raised
\* an error is over: the process has exited with code 1, the stage that
\* failed is the last one entered, the failed operation was issued once,
\* deployChain returned nothing, MainMenu and NodeManager hold no chain, and
\* the error message was printed.
C4_ErrorsAreTerminal ==
    (outcome = "failed"
        /\ failedAt \in {"Provision", "Fund", "Deploy", "DeriveConfig", "Persist"}) =>
        /\ pc = "exited"
        /\ exitCode = 1
        /\ stages[Len(stages)] = failedAt
        /\ ~Completed(failedAt)
        /\ inflight = {}
        /\ \A m, n \in 1..Len(ops) : ops[m] = ops[n] => m = n
        /\ returned = Undefined
        /\ chainConfig = Null
        /\ nmChainConfig = Null
        /\ Log("error", "An unexpected error occurred") \in logged

C4_Witness ==
    /\ outcome = "failed"
    /\ failedAt = "Persist"
    /\ exitCode = 1

\* C5: at most one rollup-creation transaction is submitted, exactly one in
\* a run that is done, and it names the provisioned batch poster (third
\* account) as the only batch poster and the two provisioned validators
\* (first and second account, in that order) as the validators.
C5_OneRollupCreation ==
    /\ Cardinality(RollupTxs) <= 1
    /\ Len(CreateRollupOps) <= 1
    /\ outcome = "done" => Cardinality(RollupTxs) = 1
    /\ \A t \in RollupTxs :
          /\ t.input.params.batchPosters = <<nodeAccounts[3].address>>
          /\ t.input.params.validators = <<nodeAccounts[1].address, nodeAccounts[2].address>>
          /\ nodeAccounts[3].role = BatchPoster
          /\ nodeAccounts[1].role = Validator
          /\ nodeAccounts[2].role = Validator

C5_Witness ==
    /\ outcome = "done"
    /\ Cardinality(RollupTxs) = 1

\* C6: the keys in the NodeConfiguration are keys provisioned in the run:
\* the batch-poster key is the key of the account submitted as batch
\* poster, the validator key the key of one of the submitted validators.
C6_ConfigKeysAreProvisionedKeys ==
    nodeConfigResult # Undefined =>
        /\ nodeConfigResult.nodeConfig.batchPosterPrivateKey
              = Find(nodeAccounts, BatchPoster).privateKey
        /\ nodeConfigResult.nodeConfig.validatorPrivateKey
              \in {a.privateKey : a \in Range(Filter(nodeAccounts, Validator))}

\* C7 as stated: the balance check passes exactly when the balance read is
\* at least baseStake + perAccountFundingAmount * (number of accounts the
\* run transfers to).
C7_RequirementCountsFundedAccounts ==
    /\ balance # Null =>
          (outcome = "insufficient"
              <=> balance.units < BASE_STAKE + TEST_TOKENS_AMOUNT * Len(roles))
    /\ outcome = "done" => Len(Transfers) = Len(roles)

\* C7 as amended: the balance check passes exactly when the balance read is
\* at least baseStake + perAccountFundingAmount * (number of accounts the
\* run transfers to + 1); a run that is done has transferred to that number
\* of accounts.
C7_RequirementCountsFundedAccountsPlusOne ==
    /\ balance # Null =>
          (outcome = "insufficient"
              <=> balance.units < BASE_STAKE + TEST_TOKENS_AMOUNT * (Len(roles) + 1))
    /\ outcome = "done" => Len(Transfers) = Len(roles)

C7_Witness ==
    /\ outcome = "insufficient"
    /\ balance.units >= BASE_STAKE + TEST_TOKENS_AMOUNT * Len(roles)
    /\ balance.units < BASE_STAKE + TEST_TOKENS_AMOUNT * (Len(roles) + 1)

\* C8: when the fetched calldata or the fetched receipt logs do not decode,
\* no configuration is returned, Persist is not entered, no artifact is
\* written and the run fails at DeriveConfig; a configuration that is
\* returned or written has both chainConfig and coreContracts recovered.
C8_NoPartialConfiguration ==
    /\ (tx # Undefined /\ txReceipt # Undefined
           /\ (getInputsThrows(tx) \/ getCoreContractsThrows(txReceipt))) =>
          /\ nodeConfigResult = Undefined
          /\ ~Entered("Persist")
          /\ WriteFileOp \notin Range(ops)
          /\ artifact = Null
          /\ returned = Undefined
          /\ pc # "decode" => (outcome \in {"failed", "interrupted"} /\ pc = "exited")
          /\ outcome = "failed" => failedAt = "DeriveConfig"
    /\ nodeConfigResult # Undefined =>
          /\ nodeConfigResult.chainConfig # Undefined
          /\ nodeConfigResult.nodeConfig.chain.chainConfig = nodeConfigResult.chainConfig
          /\ nodeConfigResult.nodeConfig.chain.coreContracts # Undefined
    /\ (artifact # Null /\ artifact.kind = "file") =>
          /\ artifact.content.chain.chainConfig # Undefined
          /\ artifact.content.chain.coreContracts # Undefined

C8_Witness ==
    /\ outcome = "failed"
    /\ failedAt = "DeriveConfig"
    /\ tx # Undefined
    /\ txReceipt # Undefined
    /\ ~getInputsThrows(tx)
    /\ getCoreContractsThrows(txReceipt)
    /\ artifact = Null

\* C9: a run that is done has provisioned 3 accounts, had 3 transfers of the
\* per-account amount accepted, the k-th to the k-th provisioned address,
\* submitted one rollup creation, and produced and written a
\* NodeConfiguration whose chainConfig.chainId is the chain id the operator
\* confirmed; the chain id printed at the end is that value.
C9_DoneRun ==
    outcome = "done" =>
        /\ Len(nodeAccounts) = 3
        /\ Len(SendOps) = 3
        /\ Len(Transfers) = 3
        /\ \A n \in 1..3 :
              /\ Transfers[n].to = nodeAccounts[n].address
              /\ Transfers[n].value = TEST_TOKENS_AMOUNT
        /\ Cardinality(RollupTxs) = 1
        /\ nodeConfigResult.nodeConfig.chain.chainConfig.chainId = chainId
        /\ artifact = [kind |-> "file", content |-> nodeConfigResult.nodeConfig]
        /\ returned.chainId = chainId
        /\ reported = chainId

C9_Witness ==
    /\ outcome = "done"
    /\ balance = Amount(500)
    /\ chainId = [type |-> "number", val |-> 412346]
    /\ reported.val = 412346

\* C10: once the Fund stage has completed, each provisioned account holds at
\* least the per-account funding amount on the base chain.
C10_FundedWhenFundCompletes ==
    Completed("Fund") =>
        \A n \in 1..Len(nodeAccounts) :
            accountBalance[nodeAccounts[n].address] >= TEST_TOKENS_AMOUNT

\* C11: once provisioned, the run holds exactly 3 accounts whose roles are
\* Validator, Validator, BatchPoster in that order; each account has a
\* generated private key of its own and the address derived from that key,
\* and the three addresses are pairwise distinct.  Provision completes only
\* with the accounts in place.
C11_ProvisionYieldsThreeDistinctAccounts ==
    /\ Completed("Provision") => nodeAccounts # <<>>
    /\ nodeAccounts # <<>> =>
          /\ Len(nodeAccounts) = 3
          /\ [n \in 1..3 |-> nodeAccounts[n].role] = <<Validator, Validator, BatchPoster>>
          /\ \A n \in 1..3 :
                /\ nodeAccounts[n].privateKey \in GenKeys
                /\ nodeAccounts[n].address = privateKeyToAddress(nodeAccounts[n].privateKey)
          /\ \A m, n \in 1..3 :
                m # n => /\ nodeAccounts[m].privateKey # nodeAccounts[n].privateKey
                         /\ nodeAccounts[m].address # nodeAccounts[n].address

C11_Witness ==
    /\ Completed("Provision")
    /\ pc = "case1"
    /\ Len(nodeAccounts) = 3
    /\ fundIdx = 1

\* the mined, successful rollup-creation transactions that carry the
\* parameters of the current run
ConfirmedDeployments ==
    {mined[n].tx : n \in {m \in 1..Len(mined) :
        /\ IsRollupTx(mined[m].tx)
        /\ mined[m].status = "success"
        /\ mined[m].tx.input.params = CreateRollupParams}}

\* C12: deployRollupContracts has two outcomes only.  Either it returned,
\* and then the hash it returned is that of a mined, successful
\* rollup-creation transaction carrying this run's parameters and Deploy has
\* completed; or it raised, and then no hash is held, DeriveConfig is never
\* entered, nothing is fetched and the process is over.  DeriveConfig is
\* entered, and the transaction fetched, only with such a hash.
C12_DeploymentIsAtomic ==
    /\ deployRollupHash # Undefined =>
          /\ \E t \in ConfirmedDeployments : Hash(t) = deployRollupHash
          /\ Completed("Deploy")
    /\ Completed("Deploy") <=> deployRollupHash # Undefined
    /\ Entered("DeriveConfig") => deployRollupHash # Undefined
    /\ \A n \in 1..Len(ops) :
          ops[n].op \in {"getTransaction", "getTransactionReceipt"} =>
             /\ deployRollupHash # Undefined
             /\ ops[n].arg = deployRollupHash
    /\ (outcome = "failed" /\ failedAt = "Deploy") =>
          /\ deployRollupHash = Undefined
          /\ ~Entered("DeriveConfig")
          /\ tx = Undefined
          /\ nodeConfigResult = Undefined
          /\ artifact = Null
          /\ pc = "exited"

C12_Witness ==
    /\ outcome = "failed"
    /\ failedAt = "Deploy"
    /\ RollupTxs # {}
    /\ pc = "exited"

\* a second state where C12's other case happens: DeriveConfig entered
C12_WitnessReturned ==
    /\ Entered("DeriveConfig")
    /\ pc = "case3"
    /\ \E t \in ConfirmedDeployments : Hash(t) = deployRollupHash

\* the getBalance calls of the current run
GetBalanceOps == SelectSeq(ops, LAMBDA o : o.op = "getBalance")

\* C13: a run reads the deployer balance exactly once, as its first
\* operation; a transfer or the rollup creation is issued only after that
\* read has returned a balance that passed the comparison with the enforced
\* requirement, and the balance held by the run never changes afterwards.
C13_BalanceReadOnceFirst ==
    /\ [](/\ runs > 0 => (Len(GetBalanceOps) = 1 /\ ops[1] = GetBalanceOp)
          /\ (SendOps # <<>> \/ CreateRollupOps # <<>>
                 \/ Transfers # <<>> \/ RollupTxs # {}) =>
                /\ balance # Null
                /\ ~InsufficientBalance(balance.units)
                /\ Completed("CheckBalance")
                /\ GetBalanceOp \notin inflight)
    /\ [][(runs' = runs /\ balance # Null) => balance' = balance]_vars

C13_Witness ==
    /\ outcome = "done"
    /\ Len(GetBalanceOps) = 1
    /\ Len(SendOps) = 3
    /\ Len(CreateRollupOps) = 1
    /\ deployerBalance < balance.units

\* the operations on the base chain
BaseChainOps ==
    {"getBalance", "sendTransaction", "createRollup", "getTransaction",
     "getTransactionReceipt"}

\* C14: at every moment of a run at most one base-chain operation (balance
\* read, transfer, rollup creation, transaction fetch, receipt fetch) awaits
\* its result, that operation is the last one issued, and none was ever
\* issued while another was still awaited.
C14_OneOperationInFlight ==
    /\ Cardinality({o \in inflight : o.op \in BaseChainOps}) <= 1
    /\ Cardinality(inflight) <= 1
    /\ maxInflight <= 1
    /\ inflight # {} => inflight = {ops[Len(ops)]}

C14_Witness ==
    /\ pc = "getTransactionReceipt"
    /\ inflight = {GetTransactionReceiptOp(deployRollupHash)}
    /\ Len(ops) = 7
    /\ maxInflight = 1

\* every transaction the deployer has had accepted, in nonce order
AllTxs == [n \in 1..Len(mined) |-> mined[n].tx] \o pending

\* C15: the transactions of the deployer are at most 3 transfers, each of
\* the per-account amount to a provisioned address and no address paid
\* twice, and at most 1 rollup creation; a transaction once accepted stays
\* (the list only grows at its end), a confirmed balance of an account never
\* goes down, and once a run has failed no transaction is added.
C15_NoCompensatingTransaction ==
    /\ [](/\ Len(Transfers) <= 3
          /\ Cardinality(RollupTxs) <= 1
          /\ Len(AllTxs) = Len(Transfers) + Cardinality(RollupTxs)
          /\ \A n \in 1..Len(AllTxs) : AllTxs[n].nonce = n - 1
          /\ \A n \in 1..Len(Transfers) :
                /\ Transfers[n].to \in Range(ProvisionedAddresses)
                /\ Transfers[n].value = TEST_TOKENS_AMOUNT
                /\ \A m \in 1..Len(Transfers) : Transfers[m].to = Transfers[n].to => m = n)
    /\ [][/\ IsPrefix(AllTxs, AllTxs')
          /\ \A a \in Addresses : accountBalance'[a] >= accountBalance[a]
          /\ outcome = "failed" => AllTxs' = AllTxs]_vars

C15_Witness ==
    /\ outcome = "failed"
    /\ failedAt = "Fund"
    /\ pc = "exited"
    /\ Len(Transfers) = 2
    /\ pending = <<>>
    /\ \A n \in 1..2 : accountBalance[nodeAccounts[n].address] = TEST_TOKENS_AMOUNT
    /\ deployerBalance = balance.units - 2 * TEST_TOKENS_AMOUNT

\* C16: a run in which key generation failed is over: the process has
\* exited with code 1 and the error was printed, no account is held, the
\* balance read is the only operation the run issued, no transfer and no
\* rollup creation was sent or is on the chain, and Fund was not entered.
C16_KeyGenerationFailureIsFatal ==
    (outcome = "failed" /\ failedAt = "Provision") =>
        /\ pc = "exited"
        /\ exitCode = 1
        /\ Log("error", "An unexpected error occurred") \in logged
        /\ nodeAccounts = <<>>
        /\ stages = <<"CheckBalance", "Provision">>
        /\ ops = <<GetBalanceOp>>
        /\ SendOps = <<>>
        /\ CreateRollupOps = <<>>
        /\ AllTxs = <<>>
        /\ deployerBalance = balance.units
        /\ artifact = Null

C16_Witness ==
    /\ outcome = "failed"
    /\ failedAt = "Provision"
    /\ pc = "exited"
    /\ balance = Amount(500)

\* the config of every rollup creation issued or accepted in the run
DeploymentConfigs ==
    {CreateRollupOps[n].arg.config : n \in 1..Len(CreateRollupOps)}
       \cup {t.input.params.config : t \in RollupTxs}

\* C17: in every rollup creation issued or accepted, the chainId parameter
\* is the integer the operator confirmed, the chainConfig document embeds
\* the confirmed value, the two agree, and baseStake is BASE_STAKE, the
\* stake term of the enforced balance requirement.  Within a run the
\* confirmed chain id and the balance requirement never change.
C17_ChainIdAndBaseStakeFixed ==
    /\ [](\A c \in DeploymentConfigs :
            /\ c.chainId = chainId.val
            /\ JSONparse(c.chainConfig).chainId = chainId
            /\ JSONparse(c.chainConfig).chainId.val = c.chainId
            /\ c.baseStake = BASE_STAKE
            /\ TOKEN_NEEDS_FOR_DEPLOY = c.baseStake + TEST_TOKENS_AMOUNT * FundingMultiplier)
    /\ [][(runs' = runs /\ chainId # Null) => chainId' = chainId]_vars

C17_Witness ==
    /\ pc = "createRollup"
    /\ RollupTxs # {}
    /\ chainId = [type |-> "string", val |-> 412347]
    /\ \A c \in DeploymentConfigs : c.chainId = 412347 /\ c.baseStake = BASE_STAKE

\* the transactions on the chain whose hash is the one the run holds
DeployedTxs == {t \in Range(AllTxs) : Hash(t) = deployRollupHash}

Reordered(rc) ==
    {[rc EXCEPT !.logs = [n \in 1..Len(rc.logs) |-> rc.logs[p[n]]]] :
        p \in Permutations(1..Len(rc.logs))}

WriteFileOps == SelectSeq(ops, LAMBDA o : o.op = "writeFile")

\* C20: a run writes node-config.json at most once, exactly once when it is
\* done, and with the configuration it derived; once the file exists the
\* deploy choice of the menu is never available again, and from then on the
\* file keeps its content, no deployment run starts and no writeFile is
\* issued.
C20_ArtifactWrittenOnce ==
    /\ [](/\ Len(WriteFileOps) <= 1
          /\ outcome = "done" =>
                /\ Len(WriteFileOps) = 1
                /\ artifact = [kind |-> "file", content |-> nodeConfigResult.nodeConfig]
          /\ artifact # Null =>
                /\ Len(WriteFileOps) = 1
                /\ ~ENABLED SelectDeployChain
                /\ pc = "menu" => chainConfig # Null)
    /\ [][artifact # Null =>
             /\ artifact' = artifact
             /\ runs' = runs
             /\ WriteFileOps' = WriteFileOps]_vars

C20_Witness ==
    /\ outcome = "done"
    /\ pc = "menu"
    /\ artifact # Null
    /\ artifact.kind = "file"
    /\ runs < MaxRuns
    /\ Log("raw", "Chain Information:") \in logged
    /\ Log("section", "Node Management") \in logged

\* the addresses a rollup creation names
NamedAddresses(params) == Range(params.validators) \cup Range(params.batchPosters)

\* C21: every address named by a rollup creation, issued or accepted, is the
\* address of an account provisioned in this run; the sendTransaction call
\* for it was issued and returned before createRollup was issued, and its
\* transfer stands on the chain ahead of the rollup creation.  The named
\* addresses are all three provisioned addresses.
C21_NamedAddressesFundedBeforeDeploy ==
    /\ \A n \in 1..Len(ops) :
          ops[n].op = "createRollup" =>
             /\ NamedAddresses(ops[n].arg) = Range(ProvisionedAddresses)
             /\ \A a \in NamedAddresses(ops[n].arg) :
                   /\ \E m \in 1..(n - 1) : ops[m] = SendTransactionOp(a)
                   /\ \E m \in 1..Len(Transfers) : Transfers[m].to = a
    /\ \A n \in 1..Len(AllTxs) :
          IsRollupTx(AllTxs[n]) =>
             /\ NamedAddresses(AllTxs[n].input.params) = Range(ProvisionedAddresses)
             /\ \A a \in NamedAddresses(AllTxs[n].input.params) :
                   \E m \in 1..(n - 1) :
                      /\ ~IsRollupTx(AllTxs[m])
                      /\ AllTxs[m].to = a
                      /\ AllTxs[m].value = TEST_TOKENS_AMOUNT

C21_Witness ==
    /\ pc = "createRollup"
    /\ RollupTxs # {}
    /\ Len(pending) = 4
    /\ Cardinality(UNION {NamedAddresses(t.input.params) : t \in RollupTxs}) = 3

\* C22: in a run that passed the balance check, gas not counted and nobody
\* else spending, the deployer's balance is the balance read less the
\* transfers made so far and stays at or above zero, every transfer can be
\* paid when it is sent, and from the moment the rollup creation is issued
\* the deployer holds at least BASE_STAKE plus one funding amount.
C22_DeployerBalanceStaysSufficient ==
    Completed("CheckBalance") =>
        /\ Spendable = balance.units - TEST_TOKENS_AMOUNT * Len(Transfers)
        /\ deployerBalance >= Spendable
        /\ Spendable >= 0
        /\ pc = "sendTransaction" => Spendable >= TEST_TOKENS_AMOUNT
        /\ (CreateRollupOps # <<>> \/ RollupTxs # {}) =>
              /\ Len(Transfers) = Len(roles)
              /\ Spendable >= BASE_STAKE + TEST_TOKENS_AMOUNT

C22_Witness ==
    /\ pc = "createRollup"
    /\ RollupTxs # {}
    /\ balance = Amount(TOKEN_NEEDS_FOR_DEPLOY)
    /\ pending = <<>>
    /\ deployerBalance = BASE_STAKE + TEST_TOKENS_AMOUNT

\* C23: a run the operator declined has returned null after the balance
\* read and the prompt alone: no stage after CheckBalance was entered, no
\* key was generated, the balance read is the only operation issued, no
\* transaction is on the chain, no artifact exists, the deployer's balance is
\* as it was read, and MainMenu and NodeManager still hold no chain; the
\* menu is open again (or the process was ended from it).
C23_DeclinedRunChangesNothing ==
    outcome = "cancelled" =>
        /\ returned = Null
        /\ chainId = Null
        /\ stages = <<"CheckBalance">>
        /\ completed = <<"CheckBalance">>
        /\ nodeAccounts = <<>>
        /\ ops = <<GetBalanceOp>>
        /\ inflight = {}
        /\ AllTxs = <<>>
        /\ deployerBalance = balance.units
        /\ artifact = Null
        /\ chainConfig = Null
        /\ nmChainConfig = Null
        /\ Log("warn", "Chain deployment cancelled.") \in logged
        /\ pc \in {"menu", "manageNodes", "exited"}

C23_Witness ==
    /\ outcome = "cancelled"
    /\ pc = "menu"
    /\ runs = 1
    /\ balance = Amount(500)
    /\ ENABLED SelectDeployChain

\* C24: MainMenu.chainConfig and NodeManager.chainConfig are always equal:
\* both unset, or both the configuration the one run that is done returned
\* (the one it derived).  Once set they never change, and the node
\* management menu is open only while they are set.
C24_MenuAndManagerConfigAgree ==
    /\ [](/\ chainConfig = nmChainConfig
          /\ chainConfig # Null =>
                /\ outcome = "done"
                /\ returned = chainConfig
                /\ nodeConfigResult.chainConfig = chainConfig
          /\ outcome = "done" => chainConfig # Null
          /\ outcome \in {"insufficient", "cancelled", "failed"} => chainConfig = Null
          /\ pc = "manageNodes" => (chainConfig # Null /\ nmChainConfig # Null))
    /\ [][chainConfig # Null =>
             (chainConfig' = chainConfig /\ nmChainConfig' = nmChainConfig)]_vars

C24_Witness ==
    /\ pc = "manageNodes"
    /\ chainConfig # Null
    /\ nmChainConfig = chainConfig
    /\ chainConfig.chainId = [type |-> "number", val |-> 412346]

\* C26: the NodeManager registry is empty in every reachable state, so no
\* node is running and the exit confirmation is never asked; Exit can be
\* selected whenever the menu is open, and selecting it clears isRunning and
\* ends the process with code 0.  isRunning is cleared by nothing else.
C26_ExitAlwaysTerminates ==
    /\ [](/\ nodes = <<>>
          /\ runningNodes = {}
          /\ pc # "exitConfirm"
          /\ pc = "menu" => ENABLED SelectExit
          /\ ~isRunning =>
                /\ pc = "exited"
                /\ exitCode = 0
                /\ Log("success", "Thank you for using Malicious Validator Playbook!")
                      \in logged)
    /\ [][SelectExit => (~isRunning' /\ pc' = "exited" /\ exitCode' = 0)]_vars
    /\ [][isRunning' # isRunning => SelectExit]_vars

C26_Witness ==
    /\ ~isRunning
    /\ pc = "exited"
    /\ chainConfig # Null
    /\ Log("section", "Node Management") \in logged
    /\ Log("error", "Not implemented") \in logged

\* the collaborator responses the current run has had, with a filler where
\* the run has not come to ask yet
RunBalance == IF balance = Null THEN 0 ELSE balance.units
RunChainId == IF chainId = Null THEN [type |-> "number", val |-> 412346] ELSE chainId
RunKeys ==
    IF nodeAccounts = <<>> THEN [n \in 1..3 |-> [kind |-> "key", k |-> n]]
    ELSE [n \in 1..Len(nodeAccounts) |-> nodeAccounts[n].privateKey]
RunHash == deployRollupHash

\* what the earlier pipeline does on the responses of the current run when
\* f is the first call that fails
OldRun(f) ==
    old_deployChain(RunBalance, outcome # "cancelled", RunChainId, RunKeys, RunHash, f)

\* C25: on the responses the run of the refactored pipeline has had, the
\* earlier pipeline issues the same operations in the same order.  A run that
\* has ended (insufficient, cancelled, failed or done) is, operation for
\* operation, outcome and failing stage included, the run of the earlier
\* pipeline with the same first failing call; a run still under way has
\* issued an initial part of what the earlier pipeline issues.  The two name
\* the same transfer targets and the same deployment parameters.
C25_PipelinesEquivalent ==
    /\ nodeAccounts # <<>> =>
          /\ ProvisionedAddresses = old_sendTargets(RunKeys)
          /\ CreateRollupParams = old_CreateRollupParams(RunKeys, RunChainId)
    /\ \A b \in InitialBalances :
          InsufficientBalance(b) <=> b < old_TOKEN_NEEDS_FOR_DEPLOY
    /\ outcome \in {"insufficient", "cancelled", "failed", "done"} =>
          \E f \in old_FailurePoints :
             OldRun(f) = [ops |-> ops, outcome |-> outcome, failedAt |-> failedAt]
    /\ outcome \in {"running", "interrupted"} =>
          \E f \in old_FailurePoints : IsPrefix(ops, OldRun(f).ops)

C25_Witness ==
    /\ outcome = "failed"
    /\ failedAt = "Fund"
    /\ OldRun("sendTransaction2") = [ops |-> ops, outcome |-> outcome, failedAt |-> failedAt]
    /\ Len(ops) = 3

\* a second state for C25: both pipelines done with the same eight operations
C25_WitnessDone ==
    /\ outcome = "done"
    /\ OldRun("none") = [ops |-> ops, outcome |-> "done", failedAt |-> "none"]
    /\ Len(ops) = 8

\* whether the registry holds a node under this id, and one that is running
Registered(nodeId) == \E n \in 1..Len(nodes) : nodes[n].config.id = nodeId
RegisteredRunning(nodeId) ==
    \E n \in 1..Len(nodes) : nodes[n].config.id = nodeId /\ nodes[n].status = "running"

\* C27: callNode leaves the registry and every node in it as they are.  A
\* call that returned a result was for a node registered and running; a call
\* that raised carries no result and was for an id not in the registry
\* ('not found') or for a registered node that is not running; a call is
\* never left waiting for a node that is not running.
C27_CallNodeOnlyReads ==
    /\ [](/\ call.state = "returned" =>
                /\ RegisteredRunning(call.nodeId)
                /\ call.result \in MockResponses(getNode(call.nodeId), call.method)
          /\ call.state = "waiting" =>
                /\ RegisteredRunning(call.nodeId)
                /\ call.node = getNode(call.nodeId)
          /\ call.state = "thrown" =>
                /\ ~RegisteredRunning(call.nodeId)
                /\ "result" \notin DOMAIN call
                /\ call.error = "not found" <=> ~Registered(call.nodeId)
          /\ call.state \in {"none", "waiting", "returned", "thrown"})
    /\ [][nodes' = nodes]_vars
    /\ [][(call' # call /\ call'.state \in {"waiting", "returned"})
             => RegisteredRunning(call'.nodeId)]_vars
    /\ [][(call' # call /\ call'.state = "thrown") => pc' = pc]_vars

C27_Witness ==
    /\ call.state = "returned"
    /\ call.method = "eth_blockNumber"
    /\ call.result = [kind |-> "number", val |-> 7]
    /\ Len(nodes) = 2
    /\ \E n \in 1..2 : nodes[n].status = "stopped"

\* a second state for C27: the call for a registered node that is not
\* running has raised
C27_WitnessNotRunning ==
    /\ call.state = "thrown"
    /\ call.error = "is not running"
    /\ Registered(call.nodeId)

====
